---- MODULE Spec2Model ----
(***************************************************************************)
(* State-machine model of v2.py, the QEMU VPS manager bot.                 *)
(*                                                                         *)
(* The bot is one asyncio event loop: a command handler runs without       *)
(* interruption up to its next `await`, where any other handler may run.   *)
(* One action of this model is one such uninterrupted stretch of a         *)
(* handler: the effect of the external command it was awaiting, followed   *)
(* by the synchronous code up to the next await.  The external tools       *)
(* (qemu-img, qemu, pkill, pgrep, tmate) are the environment: their exit   *)
(* status is a nondeterministic input.                                     *)
(***************************************************************************)
EXTENDS Integers, Sequences, FiniteSets, TLC

\* ------------------------------------------------------------ bounds
IdCount == 3        \* size of the id space gen_vps_id draws from
PortCount == 2      \* size of the local SSH port range
NumUsers == 2       \* discord users that talk to the bot
MaxHandlers == 2    \* command handlers in flight at the same time
MaxViews == 1       \* manage views that are open at the same time
MaxProcs == 2       \* qemu processes counted per VM name
MaxCalls == 3       \* commands the users issue, handlers interleaving
MaxSeqCalls == 5    \* commands the users issue, one at a time
MaxCreateCalls == 4 \* createvps commands the users issue, handlers interleaving
MaxNameCalls == 4   \* commands the users issue, one at a time, names nesting

\* ------------------------------------------------------------ configuration
OWNER_ID == 1
SSH_PORT_MIN == 22700
SSH_PORT_MAX == SSH_PORT_MIN + PortCount - 1
ID_MIN == 1000
ID_MAX == ID_MIN + IdCount - 1

Users == 1..NumUsers
Ids == ID_MIN..ID_MAX
Ports == SSH_PORT_MIN..SSH_PORT_MAX
Slots == 1..MaxHandlers
\* The name a user gives a VM is free text.  A name is modelled as the
\* sequence of its parts between dashes: <<"web">> is "web".
BaseNames == {<<"web">>}
VmSpecs == {[ram_mb |-> 2048, cpu |-> 2, disk_gb |-> 20]}
Timestamps == {"t0"}

\* f"{name}-{vps_id}": the id is one more part, <<"web", 1000>> is
\* "web-1000".  The id has a fixed width, so name and id are recovered from
\* the string and two VMs of different ids have different names.
mk_vm_name(name, vps_id) == Append(name, vps_id)

\* The name given to createvps is any text, the full name of a VM that
\* exists included: "web-1000" as a name gives the VM "web-1000-1001".
VmBaseNames == {mk_vm_name(b, ID_MIN) : b \in BaseNames}
Names == {mk_vm_name(b, i) : b \in BaseNames \cup VmBaseNames, i \in Ids}

\* The regular expression 'qemu-system.*-name {vm_name}' of pkill -f and
\* pgrep -f, searched in the command line of the qemu of VM n, which holds
\* "qemu-system-x86_64 -name <n> -m ...": nothing anchors the pattern after
\* the name, so it is found when vm_name is a leading part of n.
Matches(vm_name, n) ==
    /\ Len(vm_name) <= Len(n)
    /\ SubSeq(n, 1, Len(vm_name)) = vm_name

\* vm_paths(vm_name) and the tmate socket: the per-VM files on the host.
\* The "script" path is never written by the program.
vm_paths == {"qcow", "log", "tmate_file", "script"}
Artifacts == vm_paths \cup {"sock"}

\* A dict object of data["vps"] is a heap cell: handlers and views keep a
\* reference to it (the Python variable v) after the registry dropped it.
\* A reference is <<id, k>>, k the incarnation of the id.
Gens == 0..(MaxHandlers + MaxViews)
NoRef == <<0, 0>>
NoName == <<"", 0>>
NoRes == [ram_mb |-> 0, cpu |-> 0, disk_gb |-> 0]

VARIABLES
    boot,     \* "up" | "hung" (gen_vps_id spins) | "down" | "load_failed"
    admins,   \* data["admins"], a list
    vps,      \* data["vps"]: id -> reference of its dict
    heap,     \* reference -> the dict's fields
    file,     \* vps_data.json
    procs,    \* vm name -> number of qemu processes matching it
    files,    \* vm name -> the artifacts that exist on the host
    views,    \* the manage views users have open
    slot,     \* the command handlers: position and local variables
    reply,    \* what the last step answered to its caller, if it answered
    budget    \* the number of commands the users will still issue

vars == <<boot, admins, vps, heap, file, procs, files, views, slot, reply, budget>>

\* ------------------------------------------------------------ helpers
Range(f) == {f[x] : x \in DOMAIN f}

IdleSlot ==
    [op |-> "", pc |-> "idle", user |-> 0, vps_id |-> 0, v |-> NoRef,
     vm_name |-> NoName, port |-> 0, base |-> <<>>, res |-> NoRes, target |-> 0]

NoReply ==
    [op |-> "", user |-> 0, vps_id |-> 0, vm_name |-> NoName, port |-> 0,
     target |-> 0, result |-> ""]

\* The answer of the handler in slot s: the result and what it was about.
Reply(s, r) ==
    [op |-> s.op, user |-> s.user, vps_id |-> s.vps_id, vm_name |-> s.vm_name,
     port |-> s.port, target |-> s.target, result |-> r]

\* The dicts something still refers to; the others are garbage.
LiveRefs(vps2, slot2, views2) ==
    Range(vps2) \cup {slot2[h].v : h \in Slots} \cup {w.v : w \in views2}

Collect(heap2, vps2, slot2, views2) ==
    [r \in (DOMAIN heap2) \cap LiveRefs(vps2, slot2, views2) |-> heap2[r]]

NewRef(vid) ==
    <<vid, CHOOSE k \in Gens : /\ <<vid, k>> \notin DOMAIN heap
                               /\ \A j \in Gens : j < k => <<vid, j>> \in DOMAIN heap>>

FreeSlot(h) ==
    /\ slot[h].pc = "idle"
    /\ \A g \in Slots : g < h => slot[g].pc # "idle"

\* ------------------------------------------------------------ data helpers
EmptyFn == [x \in {} |-> 0]

\* json.dump(data): the document holds copies of the dicts, not references.
Document(vps2, heap2, admins2) ==
    [kind |-> "full", vps |-> [i \in DOMAIN vps2 |-> heap2[vps2[i]]],
     admins |-> admins2]

save_data(vps2, heap2, admins2) == Document(vps2, heap2, admins2)

is_admin(uid) == \E k \in 1..Len(admins) : admins[k] = uid

RECURSIVE ScanPorts(_, _)
ScanPorts(p, used) ==
    IF p > SSH_PORT_MAX THEN 0
    ELSE IF p \notin used THEN p ELSE ScanPorts(p + 1, used)

\* Mutant: the ports of every dict still alive are taken as used, also
\* those of records that were deleted from the registry.
UsedPorts_of_all_dicts == {heap[r].local_ssh_port : r \in DOMAIN heap}

UsedPorts == {heap[vps[i]].local_ssh_port : i \in DOMAIN vps}

\* Mutant: the scan starts one port too high, range(MIN + 1, MAX + 1).
find_free_ssh_port_skips_min == ScanPorts(SSH_PORT_MIN + 1, UsedPorts)

\* 0 stands for the RuntimeError("No free SSH ports available").
find_free_ssh_port == ScanPorts(SSH_PORT_MIN, UsedPorts)

\* The ids gen_vps_id can return; it loops while this set is empty.
gen_vps_id == Ids \ DOMAIN vps

Permitted(user, ref) == heap[ref].user = user \/ is_admin(user)

\* ------------------------------------------------------------ initial state
\* No vps_data.json yet: load_data returns the default registry.
Fresh ==
    /\ boot = "up"
    /\ admins = <<OWNER_ID>>
    /\ vps = EmptyFn
    /\ heap = EmptyFn
    /\ file = [kind |-> "absent"]
    /\ procs = [n \in Names |-> 0]
    /\ files = [n \in Names |-> {}]
    /\ views = {}
    /\ slot = [h \in Slots |-> IdleSlot]
    /\ reply = NoReply

\* The users issue at most MaxCalls commands, or MaxSeqCalls one at a time.
Init == Fresh /\ budget = MaxCalls

InitSeq == Fresh /\ budget = MaxSeqCalls

InitCreate == Fresh /\ budget = MaxCreateCalls

InitNames == Fresh /\ budget = MaxNameCalls

\* ------------------------------------------------------------ frames
\* A step that does not call save_data: memory changes, the file does not.
Mem(admins2, vps2, heap2, views2, slot2, rep) ==
    /\ boot' = boot
    /\ admins' = admins2
    /\ vps' = vps2
    /\ heap' = Collect(heap2, vps2, slot2, views2)
    /\ views' = views2
    /\ slot' = slot2
    /\ reply' = rep
    /\ file' = file

\* A step that ends in save_data(data).  how = "ok": the write completes.
\* Otherwise the process dies inside save_data: open(DATA_FILE, "w") has
\* truncated the file ("empty") or json.dump has written a part of it
\* ("partial"), and everything the process held in memory is gone.
Saved(how, admins2, vps2, heap2, views2, slot2, rep) ==
    IF how = "ok"
    THEN /\ boot' = boot
         /\ admins' = admins2
         /\ vps' = vps2
         /\ heap' = Collect(heap2, vps2, slot2, views2)
         /\ views' = views2
         /\ slot' = slot2
         /\ reply' = rep
         /\ file' = save_data(vps2, heap2, admins2)
    ELSE /\ boot' = "down"
         /\ admins' = <<>>
         /\ vps' = EmptyFn
         /\ heap' = EmptyFn
         /\ views' = {}
         /\ slot' = [g \in Slots |-> IdleSlot]
         /\ reply' = NoReply
         /\ file' = [kind |-> how]

Released(h) == [slot EXCEPT ![h] = IdleSlot]

\* The handler goes on to its next await.
Goto(h, s) ==
    /\ Mem(admins, vps, heap, views, [slot EXCEPT ![h] = s], NoReply)
    /\ UNCHANGED <<procs, files>>

\* The handler in slot h answers r and returns, changing nothing else.
Finish(h, r) ==
    /\ Mem(admins, vps, heap, views, Released(h), Reply(slot[h], r))
    /\ UNCHANGED <<procs, files>>

\* A command answers r before its first await, changing nothing.
Reject(s, r) ==
    /\ Mem(admins, vps, heap, views, slot, Reply(s, r))
    /\ UNCHANGED <<procs, files>>

\* A user issues a command and the lowest free slot takes its handler.
Issue(h) == boot = "up" /\ FreeSlot(h) /\ budget > 0 /\ budget' = budget - 1

\* A handler in flight is resumed.
Runs == boot = "up" /\ budget' = budget

At(h, op, pc) == Runs /\ slot[h].op = op /\ slot[h].pc = pc

\* ------------------------------------------------------------ create_vm_process
\* qemu-img create: a zero exit leaves a fresh image at the qcow path
\* (an existing image is overwritten); a nonzero exit returns (False, msg).
CvpImg(h) ==
    /\ Runs /\ slot[h].pc = "img"
    /\ \/ /\ files' = [files EXCEPT ![slot[h].vm_name] = @ \cup {"qcow"}]
          /\ Mem(admins, vps, heap, views, [slot EXCEPT ![h].pc = "launch"], NoReply)
          /\ UNCHANGED procs
       \/ Finish(h, "qemu-img failed")

\* nohup qemu-system-x86_64 ... > log &: a zero exit leaves one more qemu
\* process named vm_name and its log; then asyncio.sleep(2).
CvpLaunch(h) ==
    /\ Runs /\ slot[h].pc = "launch"
    /\ \/ /\ procs[slot[h].vm_name] < MaxProcs
          /\ procs' = [procs EXCEPT ![slot[h].vm_name] = @ + 1]
          /\ files' = [files EXCEPT ![slot[h].vm_name] = @ \cup {"log"}]
          /\ Mem(admins, vps, heap, views, [slot EXCEPT ![h].pc = "sleep"], NoReply)
       \/ Finish(h, "qemu launch failed")

\* generate_tmate up to its first await: the old file and socket are removed.
TmatePrefix(n) == [files EXCEPT ![n] = @ \ {"tmate_file", "sock"}]

\* tmate -S sock new-session -d exits zero: the socket exists.
TmateStartOk(h) ==
    /\ Runs /\ slot[h].pc = "tmate_start"
    /\ files' = [files EXCEPT ![slot[h].vm_name] = @ \cup {"sock"}]
    /\ Mem(admins, vps, heap, views, [slot EXCEPT ![h].pc = "tmate_display"], NoReply)
    /\ UNCHANGED procs

\* How generate_tmate returns to its caller: t is the string the caller
\* stores, files2 the files after it.
TmateReturns(h, t, files2) ==
    \/ /\ slot[h].pc = "tmate_start"
       /\ t = "failed" /\ files2 = files
    \/ /\ slot[h].pc = "tmate_display"
       /\ "sock" \in files[slot[h].vm_name]
       /\ t = "link"
       /\ files2 = [files EXCEPT ![slot[h].vm_name] = @ \cup {"tmate_file"}]
    \/ /\ slot[h].pc = "tmate_display"
       /\ t = "failed" /\ files2 = files

\* ------------------------------------------------------------ createvps
InvokeCreate(h, user, name, res) ==
    /\ Issue(h)
    /\ Goto(h, [IdleSlot EXCEPT !.op = "createvps", !.pc = "c_defer",
                !.user = user, !.base = name, !.res = res])

NewRecord(s, t, ts) ==
    [id |-> s.vps_id, user |-> s.user, name |-> s.vm_name,
     ram_mb |-> s.res.ram_mb, cpu |-> s.res.cpu, disk_gb |-> s.res.disk_gb,
     status |-> "Running", local_ssh_port |-> s.port, local_ssh |-> s.port,
     tmate |-> t, created_at |-> ts]

\* Mutant: the record is written and saved as soon as the id and the port
\* are picked, before the disk and the VM exist.
CreateAlloc_reserves(h) ==
    /\ At(h, "createvps", "c_defer")
    /\ gen_vps_id # {} /\ find_free_ssh_port # 0
    /\ \E vid \in gen_vps_id, ts \in Timestamps :
         LET s == [slot[h] EXCEPT !.vps_id = vid, !.pc = "img",
                                   !.vm_name = mk_vm_name(slot[h].base, vid),
                                   !.port = find_free_ssh_port]
             r == NewRef(vid)
             vps2 == [i \in DOMAIN vps \cup {vid} |-> IF i = vid THEN r ELSE vps[i]]
             heap2 == [x \in DOMAIN heap \cup {r} |->
                        IF x = r THEN NewRecord(s, "", ts) ELSE heap[x]]
         IN /\ Saved("ok", admins, vps2, heap2, views, [slot EXCEPT ![h] = s], NoReply)
            /\ UNCHANGED <<procs, files>>

\* lines 202-214: gen_vps_id, find_free_ssh_port, then qemu-img is spawned.
CreateAlloc(h) ==
    /\ At(h, "createvps", "c_defer")
    /\ \/ /\ gen_vps_id = {}
          /\ boot' = "hung"
          /\ reply' = NoReply
          /\ UNCHANGED <<admins, vps, heap, file, procs, files, views, slot>>
       \/ \E vid \in gen_vps_id :
            LET s == [slot[h] EXCEPT !.vps_id = vid,
                                      !.vm_name = mk_vm_name(slot[h].base, vid)]
            IN IF find_free_ssh_port = 0
               THEN /\ Mem(admins, vps, heap, views, Released(h),
                           Reply(s, "NoFreePorts"))
                    /\ UNCHANGED <<procs, files>>
               ELSE Goto(h, [s EXCEPT !.pc = "img", !.port = find_free_ssh_port])

CreateAfterLaunch(h) ==
    /\ At(h, "createvps", "sleep")
    /\ files' = TmatePrefix(slot[h].vm_name)
    /\ Mem(admins, vps, heap, views, [slot EXCEPT ![h].pc = "tmate_start"], NoReply)
    /\ UNCHANGED procs

\* lines 220-238: the record is written and saved.
CreateCommit(h, how) ==
    /\ Runs /\ slot[h].op = "createvps"
    /\ \E t \in {"link", "failed"}, ts \in Timestamps :
         LET s == slot[h]
             r == NewRef(s.vps_id)
             vps2 == [i \in DOMAIN vps \cup {s.vps_id} |->
                        IF i = s.vps_id THEN r ELSE vps[i]]
             heap2 == [x \in DOMAIN heap \cup {r} |->
                        IF x = r THEN NewRecord(s, t, ts) ELSE heap[x]]
         IN /\ TmateReturns(h, t, files')
            /\ Saved(how, admins, vps2, heap2, views, Released(h),
                     Reply(s, "created"))
            /\ UNCHANGED procs

\* ------------------------------------------------------------ manage
SetField(ref, f, val) == [heap EXCEPT ![ref] = [@ EXCEPT ![f] = val]]

\* What the handler's last response tells the caller.  restart_cb answers
\* the interaction in stop_cb; the response start_cb then sends on the same
\* interaction raises InteractionResponded.
Answer(s, r) == IF s.op = "restart" THEN "InteractionResponded" ELSE r

\* lines 294-361: the checks are made once, when the view is built.
Manage(h, user, vid) ==
    /\ Issue(h)
    /\ LET s == [IdleSlot EXCEPT !.op = "manage", !.user = user, !.vps_id = vid]
       IN IF vid \notin DOMAIN vps
          THEN Reject(s, "NotFound")
          ELSE IF ~Permitted(user, vps[vid])
          THEN Reject(s, "NotAuthorized")
          ELSE LET w == [user |-> user, vps_id |-> vid, v |-> vps[vid]]
               IN /\ Cardinality(views \cup {w}) <= MaxViews
                  /\ Mem(admins, vps, heap, views \cup {w}, slot,
                         Reply([s EXCEPT !.vm_name = heap[vps[vid]].name], "view"))
                  /\ UNCHANGED <<procs, files>>

\* A button of an open view is pressed.  The message is ephemeral: the
\* user who presses is the user the view was sent to.  The callback closes
\* over v and reads v["name"]; it makes no check of its own.
Callback(h, w, op) ==
    /\ Issue(h) /\ w \in views
    /\ Goto(h, [IdleSlot EXCEPT !.op = op,
                !.pc = IF op = "start" THEN "pgrep" ELSE "pkill",
                !.user = w.user, !.vps_id = w.vps_id, !.v = w.v,
                !.vm_name = heap[w.v].name])

InvokeStart(h, w) == Callback(h, w, "start")
InvokeStop(h, w) == Callback(h, w, "stop")
InvokeRestart(h, w) == Callback(h, w, "restart")

\* What pgrep -f 'qemu-system.*-name <vm_name>' || true prints, as run_shell
\* returns it.  run_shell hands the command to /bin/sh -c, and the command
\* line of that shell holds the pattern's own text, which the pattern
\* matches: pgrep leaves out itself, not the shell that runs it.  So the
\* output names a process when a qemu of the VM runs, and on a host where
\* the shell stays the parent of pgrep (dash, bash) also when none runs.
pgrep_out(n) ==
    IF \E m \in Names : Matches(n, m) /\ procs[m] > 0
    THEN {TRUE} ELSE {TRUE, FALSE}

\* The processes after pkill -f 'qemu-system.*-name {vm_name}' || true:
\* every qemu whose command line the pattern matches is terminated.
pkill(vm_name) ==
    [n \in Names |-> IF Matches(vm_name, n) THEN 0 ELSE procs[n]]

\* start_cb after pgrep, the output is not empty: lines 310-314.
StartAlreadyRunning(h, how) ==
    /\ Runs /\ slot[h].pc = "pgrep" /\ slot[h].op \in {"start", "restart"}
    /\ TRUE \in pgrep_out(slot[h].vm_name)
    /\ Saved(how, admins, vps, SetField(slot[h].v, "status", "Running"), views,
             Released(h), Reply(slot[h], Answer(slot[h], "already running")))
    /\ UNCHANGED <<procs, files>>

\* start_cb after pgrep, the output is empty: line 316 reads the stored
\* resources and port and enters create_vm_process.
StartLaunch(h) ==
    /\ Runs /\ slot[h].pc = "pgrep" /\ slot[h].op \in {"start", "restart"}
    /\ FALSE \in pgrep_out(slot[h].vm_name)
    /\ LET r == heap[slot[h].v]
       IN Goto(h, [slot[h] EXCEPT !.pc = "img", !.port = r.local_ssh_port,
                   !.res = [ram_mb |-> r.ram_mb, cpu |-> r.cpu,
                            disk_gb |-> r.disk_gb]])

\* lines 320-322.
StartFinish(h, how) ==
    /\ Runs /\ slot[h].pc = "sleep" /\ slot[h].op \in {"start", "restart"}
    /\ Saved(how, admins, vps, SetField(slot[h].v, "status", "Running"), views,
             Released(h), Reply(slot[h], Answer(slot[h], "started")))
    /\ UNCHANGED <<procs, files>>

\* Mutant: a stop that finds no process to kill answers a failure.
StopKill_needs_process(h, how) ==
    /\ At(h, "stop", "pkill")
    /\ IF procs[slot[h].vm_name] = 0
       THEN Finish(h, "not running")
       ELSE /\ procs' = pkill(slot[h].vm_name)
            /\ Saved(how, admins, vps, SetField(slot[h].v, "status", "Stopped"),
                     views, Released(h), Reply(slot[h], "stopped"))
            /\ UNCHANGED files

\* stop_cb after pkill: lines 328-330.
StopKill(h, how) ==
    /\ At(h, "stop", "pkill")
    /\ procs' = pkill(slot[h].vm_name)
    /\ Saved(how, admins, vps, SetField(slot[h].v, "status", "Stopped"), views,
             Released(h), Reply(slot[h], "stopped"))
    /\ UNCHANGED files

\* restart_cb: stop_cb, asyncio.sleep(1), then start_cb spawns pgrep.
RestartKill(h, how) ==
    /\ At(h, "restart", "pkill")
    /\ procs' = pkill(slot[h].vm_name)
    /\ Saved(how, admins, vps, SetField(slot[h].v, "status", "Stopped"), views,
             [slot EXCEPT ![h].pc = "pgrep"], Reply(slot[h], "stopped"))
    /\ UNCHANGED files

\* The view times out (discord.ui.View) and its buttons stop working.
ViewTimeout(w) ==
    /\ Runs /\ w \in views
    /\ Mem(admins, vps, heap, views \ {w}, slot, NoReply)
    /\ UNCHANGED <<procs, files>>

\* ------------------------------------------------------------ deletevps, reinstallvps, renewssh
\* The common head of the three commands: lookup, authorization, then v
\* and vm_name are bound and pkill is spawned.
Bound(op, user, vid) ==
    [IdleSlot EXCEPT !.op = op, !.pc = "pkill", !.user = user, !.vps_id = vid,
                     !.v = vps[vid], !.vm_name = heap[vps[vid]].name]

Lookup(h, op, user, vid, port) ==
    LET s == [IdleSlot EXCEPT !.op = op, !.user = user, !.vps_id = vid]
    IN IF vid \notin DOMAIN vps
       THEN Reject(s, "NotFound")
       ELSE IF ~Permitted(user, vps[vid])
       THEN Reject(s, "NotAuthorized")
       ELSE Goto(h, [Bound(op, user, vid) EXCEPT !.port = port])

InvokeDelete(h, user, vid) ==
    /\ Issue(h)
    /\ Lookup(h, "deletevps", user, vid, 0)

\* lines 378-396 after pkill: the files and the socket are removed, then
\* del data["vps"][vps_id], which raises KeyError when the key is gone.
DeleteFinish(h, how) ==
    /\ At(h, "deletevps", "pkill")
    /\ procs' = pkill(slot[h].vm_name)
    /\ files' = [files EXCEPT ![slot[h].vm_name] = @ \ Artifacts]
    /\ IF slot[h].vps_id \in DOMAIN vps
       THEN Saved(how, admins, [i \in DOMAIN vps \ {slot[h].vps_id} |-> vps[i]],
                  heap, views, Released(h), Reply(slot[h], "deleted"))
       ELSE Mem(admins, vps, heap, views, Released(h), Reply(slot[h], "KeyError"))

InvokeReinstall(h, user, vid) ==
    /\ Issue(h)
    /\ Lookup(h, "reinstallvps", user, vid, 0)

\* Mutant: the reinstall takes a fresh port instead of the record's.
ReinstallKill_new_port(h) ==
    /\ At(h, "reinstallvps", "pkill")
    /\ procs' = pkill(slot[h].vm_name)
    /\ files' = [files EXCEPT ![slot[h].vm_name] = @ \ {"qcow"}]
    /\ LET r == heap[slot[h].v]
       IN Mem(admins, vps, heap, views,
              [slot EXCEPT ![h] = [@ EXCEPT !.pc = "img", !.port = find_free_ssh_port,
                   !.res = [ram_mb |-> r.ram_mb, cpu |-> r.cpu,
                            disk_gb |-> r.disk_gb]]], NoReply)

\* lines 413-422 after pkill: the image is removed, the port is the record's.
ReinstallKill(h) ==
    /\ At(h, "reinstallvps", "pkill")
    /\ procs' = pkill(slot[h].vm_name)
    /\ files' = [files EXCEPT ![slot[h].vm_name] = @ \ {"qcow"}]
    /\ LET r == heap[slot[h].v]
           local_port == IF r.local_ssh_port # 0 THEN r.local_ssh_port
                         ELSE find_free_ssh_port
       IN Mem(admins, vps, heap, views,
              [slot EXCEPT ![h] = [@ EXCEPT !.pc = "img", !.port = local_port,
                   !.res = [ram_mb |-> r.ram_mb, cpu |-> r.cpu,
                            disk_gb |-> r.disk_gb]]], NoReply)

\* lines 426-430.
ReinstallFinish(h, how) ==
    /\ At(h, "reinstallvps", "sleep")
    /\ LET r == slot[h].v
           heap2 == [heap EXCEPT ![r] = [@ EXCEPT !.local_ssh_port = slot[h].port,
                                                  !.local_ssh = slot[h].port,
                                                  !.status = "Running"]]
       IN Saved(how, admins, vps, heap2, views, Released(h),
                Reply(slot[h], "reinstalled"))
    /\ UNCHANGED <<procs, files>>

\* lines 437-456: the new port is picked before anything is stopped.
InvokeRenew(h, user, vid) ==
    /\ Issue(h)
    /\ IF vid \in DOMAIN vps /\ Permitted(user, vps[vid]) /\ find_free_ssh_port = 0
       THEN Reject([IdleSlot EXCEPT !.op = "renewssh", !.user = user, !.vps_id = vid,
                                    !.vm_name = heap[vps[vid]].name], "NoFreePorts")
       ELSE Lookup(h, "renewssh", user, vid, find_free_ssh_port)

\* line 457 after pkill: create_vm_process with the stored resources.
RenewKill(h) ==
    /\ At(h, "renewssh", "pkill")
    /\ procs' = pkill(slot[h].vm_name)
    /\ LET r == heap[slot[h].v]
       IN Mem(admins, vps, heap, views,
              [slot EXCEPT ![h] = [@ EXCEPT !.pc = "img",
                   !.res = [ram_mb |-> r.ram_mb, cpu |-> r.cpu,
                            disk_gb |-> r.disk_gb]]], NoReply)
    /\ UNCHANGED files

\* lines 462-466: the port is written to the record, generate_tmate starts.
RenewAfterLaunch(h) ==
    /\ At(h, "renewssh", "sleep")
    /\ files' = TmatePrefix(slot[h].vm_name)
    /\ LET heap2 == [heap EXCEPT ![slot[h].v] =
                        [@ EXCEPT !.local_ssh_port = slot[h].port,
                                  !.local_ssh = slot[h].port]]
       IN Mem(admins, vps, heap2, views, [slot EXCEPT ![h].pc = "tmate_start"],
              NoReply)
    /\ UNCHANGED procs

\* Mutant: the renew answers without the save_data of line 471.
RenewFinish_unsaved(h, how) ==
    /\ Runs /\ slot[h].op = "renewssh"
    /\ \E t \in {"link", "failed"} :
         LET heap2 == [heap EXCEPT ![slot[h].v] =
                          [@ EXCEPT !.tmate = t, !.status = "Running"]]
         IN /\ TmateReturns(h, t, files')
            /\ Mem(admins, vps, heap2, views, Released(h), Reply(slot[h], "renewed"))
            /\ UNCHANGED procs

\* lines 467-472.
RenewFinish(h, how) ==
    /\ Runs /\ slot[h].op = "renewssh"
    /\ \E t \in {"link", "failed"} :
         LET heap2 == [heap EXCEPT ![slot[h].v] =
                          [@ EXCEPT !.tmate = t, !.status = "Running"]]
         IN /\ TmateReturns(h, t, files')
            /\ Saved(how, admins, vps, heap2, views, Released(h),
                     Reply(slot[h], "renewed"))
            /\ UNCHANGED procs

\* ------------------------------------------------------------ addadmin, removeadmin
\* list.remove(x): the first occurrence is dropped.
RECURSIVE ListRemove(_, _)
ListRemove(l, x) ==
    IF l = <<>> THEN <<>>
    ELSE IF Head(l) = x THEN Tail(l)
    ELSE <<Head(l)>> \o ListRemove(Tail(l), x)

\* Mutant: any admin may add an admin, not the owner alone.
addadmin_by_admin(h, caller, user, how) ==
    /\ Issue(h)
    /\ LET s == [IdleSlot EXCEPT !.op = "addadmin", !.user = caller, !.target = user]
       IN IF ~is_admin(caller)
          THEN Reject(s, "OnlyOwner")
          ELSE IF is_admin(user)
          THEN Reject(s, "AlreadyAdmin")
          ELSE /\ Saved(how, Append(admins, user), vps, heap, views, slot,
                        Reply(s, "added"))
               /\ UNCHANGED <<procs, files>>

addadmin(h, caller, user, how) ==
    /\ Issue(h)
    /\ LET s == [IdleSlot EXCEPT !.op = "addadmin", !.user = caller, !.target = user]
       IN IF caller # OWNER_ID
          THEN Reject(s, "OnlyOwner")
          ELSE IF is_admin(user)
          THEN Reject(s, "AlreadyAdmin")
          ELSE /\ Saved(how, Append(admins, user), vps, heap, views, slot,
                        Reply(s, "added"))
               /\ UNCHANGED <<procs, files>>

\* Mutant: the check that the user to remove is the owner is missing.
removeadmin_any(h, caller, user, how) ==
    /\ Issue(h)
    /\ LET s == [IdleSlot EXCEPT !.op = "removeadmin", !.user = caller, !.target = user]
       IN IF caller # OWNER_ID
          THEN Reject(s, "OnlyOwner")
          ELSE IF ~is_admin(user)
          THEN Reject(s, "NotAdmin")
          ELSE /\ Saved(how, ListRemove(admins, user), vps, heap, views, slot,
                        Reply(s, "removed"))
               /\ UNCHANGED <<procs, files>>

removeadmin(h, caller, user, how) ==
    /\ Issue(h)
    /\ LET s == [IdleSlot EXCEPT !.op = "removeadmin", !.user = caller, !.target = user]
       IN IF caller # OWNER_ID
          THEN Reject(s, "OnlyOwner")
          ELSE IF user = OWNER_ID
          THEN Reject(s, "CannotRemoveOwner")
          ELSE IF ~is_admin(user)
          THEN Reject(s, "NotAdmin")
          ELSE /\ Saved(how, ListRemove(admins, user), vps, heap, views, slot,
                        Reply(s, "removed"))
               /\ UNCHANGED <<procs, files>>

\* ------------------------------------------------------------ environment
\* A qemu process ends by itself (the guest powers off, qemu fails).
QemuExit(n) ==
    /\ procs[n] > 0
    /\ procs' = [procs EXCEPT ![n] = @ - 1]
    /\ reply' = NoReply
    /\ UNCHANGED <<boot, admins, vps, heap, file, files, views, slot, budget>>

\* The bot process dies between two steps: the file is as last written.
Crash ==
    /\ boot \in {"up", "hung"}
    /\ boot' = "down"
    /\ admins' = <<>> /\ vps' = EmptyFn /\ heap' = EmptyFn
    /\ views' = {} /\ slot' = [g \in Slots |-> IdleSlot] /\ reply' = NoReply
    /\ UNCHANGED <<file, procs, files, budget>>

\* load_data: the default registry when there is no file, the document
\* when json.load can read it.
load_data ==
    IF file.kind = "absent"
    THEN [vps |-> EmptyFn, heap |-> EmptyFn, admins |-> <<OWNER_ID>>]
    ELSE [vps |-> [i \in DOMAIN file.vps |-> <<i, 0>>],
          heap |-> [r \in {<<i, 0>> : i \in DOMAIN file.vps} |-> file.vps[r[1]]],
          admins |-> file.admins]

\* The bot is started again: line 50, data = load_data().  json.load
\* raises on an empty or partial document and the module does not load.
Restart ==
    /\ boot = "down"
    /\ IF file.kind \in {"absent", "full"}
       THEN /\ boot' = "up"
            /\ admins' = load_data.admins
            /\ vps' = load_data.vps
            /\ heap' = load_data.heap
       ELSE /\ boot' = "load_failed"
            /\ UNCHANGED <<admins, vps, heap>>
    /\ UNCHANGED <<file, procs, files, views, slot, reply, budget>>

\* ------------------------------------------------------------ next-state relations
\* The steps of each command, for the handler in slot h.  how tells whether
\* a save_data the step makes completes ("ok") or the process dies in it.
CreateOp(h, how) ==
    \/ \E u \in Users, b \in BaseNames, r \in VmSpecs : InvokeCreate(h, u, b, r)
    \/ CreateAlloc(h)
    \/ CreateAfterLaunch(h)
    \/ CreateCommit(h, how)

Tools(h) ==
    \/ CvpImg(h)
    \/ CvpLaunch(h)

ManageOp(h, how) ==
    \/ \E u \in Users, i \in Ids : Manage(h, u, i)
    \/ \E w \in views : InvokeStart(h, w)
    \/ \E w \in views : InvokeStop(h, w)
    \/ \E w \in views : InvokeRestart(h, w)
    \/ StartAlreadyRunning(h, how)
    \/ StartLaunch(h)
    \/ StartFinish(h, how)
    \/ StopKill(h, how)
    \/ RestartKill(h, how)

DeleteOp(h, how) ==
    \/ \E u \in Users, i \in Ids : InvokeDelete(h, u, i)
    \/ DeleteFinish(h, how)

ReinstallOp(h, how) ==
    \/ \E u \in Users, i \in Ids : InvokeReinstall(h, u, i)
    \/ ReinstallKill(h)
    \/ ReinstallFinish(h, how)

RenewOp(h, how) ==
    \/ \E u \in Users, i \in Ids : InvokeRenew(h, u, i)
    \/ RenewKill(h)
    \/ RenewAfterLaunch(h)
    \/ RenewFinish(h, how)

AdminOp(h, how) ==
    \/ \E c \in Users, u \in Users : addadmin(h, c, u, how)
    \/ \E c \in Users, u \in Users : removeadmin(h, c, u, how)

\* The whole bot: every command, any number of handlers in flight.
Next ==
    \/ \E h \in Slots :
         \/ CreateOp(h, "ok") \/ Tools(h) \/ TmateStartOk(h)
         \/ ManageOp(h, "ok") \/ DeleteOp(h, "ok") \/ ReinstallOp(h, "ok")
         \/ RenewOp(h, "ok") \/ AdminOp(h, "ok")
    \/ \E w \in views : ViewTimeout(w)
    \/ \E n \in Names : QemuExit(n)

Spec == Init /\ [][Next]_vars

\* One command at a time: a command is issued when the last has returned.
NextSeq ==
    \/ CreateOp(1, "ok") \/ Tools(1) \/ TmateStartOk(1)
    \/ ManageOp(1, "ok") \/ DeleteOp(1, "ok") \/ ReinstallOp(1, "ok")
    \/ RenewOp(1, "ok") \/ AdminOp(1, "ok")
    \/ \E w \in views : ViewTimeout(w)
    \/ \E n \in Names : QemuExit(n)

SpecSeq == InitSeq /\ [][NextSeq]_vars

\* The bot process may die, between two steps or inside save_data, and be
\* started again.
NextCrash ==
    \/ CreateOp(1, "ok") \/ Tools(1) \/ TmateStartOk(1) \/ AdminOp(1, "ok")
    \/ \E how \in {"empty", "partial"} : CreateCommit(1, how) \/ AdminOp(1, how)
    \/ Crash
    \/ Restart

SpecCrash == InitSeq /\ [][NextCrash]_vars

\* The users only create VMs, handlers interleaving: two creates in
\* flight can take the same port, so the records can outnumber the ports
\* and fill the id space.
NextCreate ==
    \E h \in Slots : CreateOp(h, "ok") \/ Tools(h) \/ TmateStartOk(h)

SpecCreate == InitCreate /\ [][NextCreate]_vars

\* One command at a time, the users also naming a new VM after a VM that
\* exists.
NextNames ==
    \/ CreateOp(1, "ok") \/ Tools(1) \/ TmateStartOk(1)
    \/ \E u \in Users, b \in VmBaseNames, r \in VmSpecs : InvokeCreate(1, u, b, r)
    \/ ManageOp(1, "ok") \/ DeleteOp(1, "ok") \/ ReinstallOp(1, "ok")
    \/ RenewOp(1, "ok")
    \/ \E w \in views : ViewTimeout(w)
    \/ \E n \in Names : QemuExit(n)

SpecNames == InitNames /\ [][NextNames]_vars

\* ------------------------------------------------------------ properties
\* A handler leaves its slot's idle state: the command was not rejected.
Starts(h, ops) ==
    slot[h].pc = "idle" /\ slot'[h].pc # "idle" /\ slot'[h].op \in ops

\* What a command may change besides its own slot and its answer.
WorldUnchanged ==
    /\ vps' = vps /\ heap' = heap /\ admins' = admins /\ file' = file
    /\ procs' = procs /\ files' = files /\ views' = views

\* C1: no two records of the registry hold the same local port, whatever
\* the interleaving of the handlers.
C1_PortsUnique ==
    \A i, j \in DOMAIN vps :
        i # j => heap[vps[i]].local_ssh_port # heap[vps[j]].local_ssh_port

\* C2: a create that reports success adds exactly one record: it never
\* takes the id of a live record and replaces it.
C2_CreateAddsOneRecord ==
    [][(reply'.op = "createvps" /\ reply'.result = "created")
        => /\ reply'.vps_id \notin DOMAIN vps
           /\ Cardinality(DOMAIN vps') = Cardinality(DOMAIN vps) + 1]_vars

\* C3: a start, stop, restart, delete, reinstall or renew issued by a caller
\* who at that moment is neither the VM's owner nor an admin is rejected:
\* its handler never gets past the checks.
C3_UnauthorizedRejected ==
    [][\A h \in Slots :
         Starts(h, {"start", "stop", "restart", "deletevps", "reinstallvps",
                    "renewssh"})
         => Permitted(slot'[h].user, slot'[h].v)]_vars

\* C4: once the record of an id is deleted, a manage on the id is answered
\* NotFound and a start, stop or restart on it, also from a view opened
\* before the delete, is rejected: its handler never gets past the checks.
C4_DeletedIsNotFound ==
    [][/\ \A h \in Slots :
            Starts(h, {"start", "stop", "restart"})
            => slot'[h].vps_id \in DOMAIN vps
       /\ (reply'.op = "manage" /\ reply'.vps_id \notin DOMAIN vps)
            => (reply'.result = "NotFound" /\ WorldUnchanged)]_vars

\* p is what an ascending scan of the range returns.
LowestFree(p) ==
    /\ p \in Ports /\ p \notin UsedPorts
    /\ \A q \in Ports : q < p => q \in UsedPorts

Exhausted == Ports \subseteq UsedPorts

CreateAllocates(h) ==
    slot[h].op = "createvps" /\ slot[h].pc = "c_defer" /\ slot'[h] # slot[h]

\* C5: the port an allocation returns is the lowest port of the range that
\* no record holds; when the records hold every port, the create or renew
\* that asked answers NoFreePorts and changes nothing.
C5_LowestFreePort ==
    [][\A h \in Slots :
         /\ CreateAllocates(h) =>
              IF Exhausted
              THEN /\ reply'.op = "createvps" /\ reply'.result = "NoFreePorts"
                   /\ slot'[h] = IdleSlot /\ WorldUnchanged
              ELSE slot'[h].pc = "img" /\ LowestFree(slot'[h].port)
         /\ Starts(h, {"renewssh"}) => LowestFree(slot'[h].port)
         /\ (reply'.op = "renewssh" /\ reply'.result = "NoFreePorts")
              => (Exhausted /\ WorldUnchanged /\ slot' = slot)]_vars

C5_Witness ==
    /\ reply.op = "createvps" /\ reply.result = "NoFreePorts"
    /\ Cardinality(DOMAIN vps) = PortCount

\* C6: a crash inside save_data leaves a file that the next load reads as
\* a complete registry: the one before the save or the one being saved.
C6_SaveIsAtomic == boot = "down" => file.kind \in {"absent", "full"}

\* C7: a create adds nothing to the registry, in memory or in the file,
\* before the step that reports its success; a create that fails at disk
\* creation or at launch leaves both as they were, so the id and the port
\* it had picked are as free after it as they were before.
C7_FailedCreateAddsNothing ==
    [][\A h \in Slots :
         ((slot[h].op = "createvps" \/ slot'[h].op = "createvps")
            /\ slot'[h] # slot[h]
            /\ ~(reply'.op = "createvps" /\ reply'.result = "created"))
         => /\ vps' = vps /\ file' = file /\ admins' = admins
            /\ \A i \in DOMAIN vps : heap'[vps[i]] = heap[vps[i]]
            /\ slot[h].vps_id \notin DOMAIN vps => slot[h].vps_id \notin DOMAIN vps'
            /\ {heap'[vps'[i]].local_ssh_port : i \in DOMAIN vps'} = UsedPorts]_vars

C7_Witness ==
    /\ reply.op = "createvps" /\ reply.result = "qemu launch failed"
    /\ reply.vps_id \notin DOMAIN vps
    /\ reply.port \notin UsedPorts

\* C8: when a create returns the failure of the VM launch, the disk image
\* it had created no longer exists.
C8_FailedCreateLeavesNoDisk ==
    (reply.op = "createvps" /\ reply.result = "qemu launch failed")
    => "qcow" \notin files[reply.vm_name]

\* C9: a reinstall or a renew that was in flight when the VM's delete
\* succeeded returns, with nothing else in flight on the VM: the VM,
\* which has no record any more, has no qemu process and no artifact.
C9_NothingOutlivesRecord ==
    (/\ reply.op \in {"reinstallvps", "renewssh"}
     /\ reply.result \notin {"NotFound", "NotAuthorized", "NoFreePorts"}
     /\ reply.vps_id \notin DOMAIN vps
     /\ \A h \in Slots : slot[h].vm_name # reply.vm_name)
    => (procs[reply.vm_name] = 0 /\ files[reply.vm_name] = {})

\* C10: the owner is an admin whenever the bot is up, and a removeadmin of
\* the owner is rejected and leaves the admin list as it was.
C10_OwnerStaysAdmin ==
    /\ [](boot = "up" => is_admin(OWNER_ID))
    /\ [][(reply'.op = "removeadmin" /\ reply'.target = OWNER_ID)
           => /\ reply'.result \in {"OnlyOwner", "CannotRemoveOwner"}
              /\ admins' = admins /\ file' = file]_vars

C10_Witness ==
    /\ reply.op = "removeadmin" /\ reply.target = OWNER_ID
    /\ reply.user = OWNER_ID /\ reply.result = "CannotRemoveOwner"
    /\ Len(admins) > 1


AdminOps == {"addadmin", "removeadmin"}

\* C11: the admin list changes only in an addadmin or removeadmin of the
\* owner that succeeds; an addadmin or removeadmin of any other caller, an
\* admin included, is answered OnlyOwner and changes neither the list nor
\* the file; no other command changes the list.
C11_OnlyOwnerChangesAdmins ==
    [][/\ admins' # admins
            => /\ reply'.op \in AdminOps /\ reply'.user = OWNER_ID
               /\ reply'.result \in {"added", "removed"}
       /\ (reply'.op \in AdminOps /\ reply'.user # OWNER_ID)
            => /\ reply'.result = "OnlyOwner"
               /\ admins' = admins /\ file' = file]_vars

C11_Witness ==
    /\ reply.op \in AdminOps /\ reply.user # OWNER_ID
    /\ is_admin(reply.user) /\ reply.result = "OnlyOwner"
    /\ \E i \in DOMAIN vps : heap[vps[i]].status = "Running"


\* The handler in slot h returns in this step.
Returns(h, op) == slot[h].op = op /\ slot[h].pc # "idle" /\ slot'[h].pc = "idle"

\* C12: a stop always answers success and leaves the record as it was but
\* for status, which is Stopped, whether or not a process of the VM
\* existed; so a stop of a VM that a stop has just stopped leaves the
\* record exactly as it found it.
C12_StopIdempotent ==
    [][\A h \in Slots :
         Returns(h, "stop")
         => /\ reply'.op = "stop" /\ reply'.result = "stopped"
            /\ procs'[slot[h].vm_name] = 0
            /\ slot[h].v \in DOMAIN heap'
                 => /\ heap'[slot[h].v] = [heap[slot[h].v] EXCEPT !.status = "Stopped"]
                    /\ heap[slot[h].v].status = "Stopped"
                         => heap'[slot[h].v] = heap[slot[h].v]]_vars

\* Four commands were issued, the last answered is a stop, and the one VM
\* is Stopped with no process: create, manage, stop, stop ends here.
C12_Witness ==
    /\ reply.op = "stop" /\ reply.result = "stopped"
    /\ budget = MaxSeqCalls - 4
    /\ reply.vps_id \in DOMAIN vps
    /\ heap[vps[reply.vps_id]].status = "Stopped"
    /\ procs[reply.vm_name] = 0


\* Two versions of a record differ at most in status.
SameButStatus(a, b) == [a EXCEPT !.status = b.status] = b

\* C13: no step of a reinstall, up to its answer of success or failure,
\* changes a field of the record other than status: id, owner, name,
\* resources, created_at, local port and the rest are as they were; the
\* step that answers success leaves status Running.
C13_ReinstallKeepsRecord ==
    [][\A h \in Slots :
         (slot[h].op = "reinstallvps" /\ slot'[h] # slot[h])
         => /\ slot[h].v \in DOMAIN heap'
                 => SameButStatus(heap[slot[h].v], heap'[slot[h].v])
            /\ reply'.result = "reinstalled"
                 => /\ reply'.op = "reinstallvps"
                    /\ slot[h].v \in DOMAIN heap'
                         => /\ heap'[slot[h].v].status = "Running"
                            /\ heap'[slot[h].v].local_ssh_port = reply'.port
            /\ reply'.result # "reinstalled"
                 => (slot[h].v \in DOMAIN heap' => heap'[slot[h].v] = heap[slot[h].v])]_vars

\* A VM that was stopped has been reinstalled: its status changed.
C13_Witness ==
    /\ reply.op = "reinstallvps" /\ reply.result = "reinstalled"
    /\ reply.vps_id \in DOMAIN vps
    /\ heap[vps[reply.vps_id]].status = "Running"
    /\ file.vps[reply.vps_id].status = "Running"
    /\ budget = MaxSeqCalls - 4


\* C14: the port a renew picks is a port of the range other than the one
\* the VM holds when the renew is issued, and when the renew answers
\* success the VM's record holds the picked port, not the previous one.
C14_RenewChangesPort ==
    [][\A h \in Slots :
         /\ Starts(h, {"renewssh"})
              => /\ slot'[h].port \in Ports
                 /\ slot'[h].port # heap[slot'[h].v].local_ssh_port
         /\ (Returns(h, "renewssh") /\ reply'.result = "renewed"
               /\ slot[h].v \in DOMAIN heap')
              => heap'[slot[h].v].local_ssh_port = slot[h].port]_vars


\* No record other than the dict v holds port p.
OnlyHolder(v, p) ==
    \A i \in DOMAIN vps : vps[i] # v => heap[vps[i]].local_ssh_port # p

\* After the step, p is free and an allocation returns it unless a lower
\* port is free.
ReclaimedNext(p) ==
    /\ p \notin UsedPorts'
    /\ find_free_ssh_port' \in SSH_PORT_MIN..p
    /\ (\A q \in Ports : q < p => q \in UsedPorts') => find_free_ssh_port' = p

\* C15: the step of a renew that overwrites the record's port, and the
\* step of a delete that removes the record, free the port the record
\* held, unless another record holds it too: from the next state on the
\* allocation returns it when no lower port is free.
C15_PortReclaimed ==
    [][/\ (reply'.op = "deletevps" /\ reply'.result = "deleted")
            => LET v == vps[reply'.vps_id]
               IN OnlyHolder(v, heap[v].local_ssh_port)
                    => ReclaimedNext(heap[v].local_ssh_port)
       /\ \A h \in Slots :
            (slot[h].op = "renewssh" /\ slot[h].pc = "sleep"
               /\ slot'[h].pc = "tmate_start")
            => LET v == slot[h].v
               IN (OnlyHolder(v, heap[v].local_ssh_port)
                     /\ heap[v].local_ssh_port # slot[h].port)
                    => ReclaimedNext(heap[v].local_ssh_port)]_vars

\* After a renew moved the only VM to the second port, a create has been
\* given the first port again.
C15_Witness ==
    /\ \A h \in Slots : slot[h].op # "renewssh"
    /\ \E i \in DOMAIN vps : heap[vps[i]].local_ssh_port = SSH_PORT_MIN + 1
    /\ Cardinality(DOMAIN vps) = 1
    /\ \E h \in Slots : /\ slot[h].op = "createvps" /\ slot[h].pc = "img"
                        /\ slot[h].port = SSH_PORT_MIN


\* The answers that report success of a lifecycle or admin command.
Successes ==
    {"created", "started", "already running", "stopped", "reinstalled",
     "renewed", "deleted", "added", "removed"}

LaunchFailures == {"qemu-img failed", "qemu launch failed"}

\* C17: a start that finds a process of the VM launches nothing, sets
\* status Running and answers success; a start that finds none goes on to
\* launch with the record's resources and port; it sets status Running
\* only when the launch succeeded, and a failed launch leaves the record
\* as it was and answers the failure.
C17_StartChecksProcess ==
    [][\A h \in Slots :
         LET n == slot[h].vm_name
             v == slot[h].v
         IN /\ (Returns(h, "start") /\ reply'.result = "already running")
                 => /\ procs[n] > 0
                    /\ procs' = procs /\ files' = files
                    /\ v \in DOMAIN heap'
                         => heap'[v] = [heap[v] EXCEPT !.status = "Running"]
            /\ (slot[h].op = "start" /\ slot[h].pc = "pgrep" /\ procs[n] = 0
                  /\ slot'[h] # slot[h])
                 => /\ slot'[h].pc = "img"
                    /\ slot'[h].port = heap[v].local_ssh_port
                    /\ slot'[h].res = [ram_mb |-> heap[v].ram_mb, cpu |-> heap[v].cpu,
                                       disk_gb |-> heap[v].disk_gb]
            /\ (Returns(h, "start") /\ reply'.result = "started"
                  /\ v \in DOMAIN heap')
                 => heap'[v] = [heap[v] EXCEPT !.status = "Running"]
            /\ (Returns(h, "start") /\ reply'.result \in LaunchFailures
                  /\ v \in DOMAIN heap')
                 => heap'[v] = heap[v]]_vars


\* C18: qemu-img create, which writes a fresh disk image over the VM's,
\* is run only on behalf of a create or a reinstall, never of a start, a
\* restart or a renew.
C18_DiskSurvives ==
    [][\A h \in Slots :
         (slot[h].pc = "img" /\ slot'[h].pc = "launch")
         => slot[h].op \in {"createvps", "reinstallvps"}]_vars


\* C19: a start, restart, reinstall or renew launches a qemu for the VM
\* only when no process of the VM exists, so that the launch never leaves
\* the VM with more than one process, whatever the interleaving.
C19_OneProcessPerVm ==
    [][\A h \in Slots :
         (/\ slot[h].op \in {"start", "restart", "reinstallvps", "renewssh"}
          /\ slot[h].pc = "launch" /\ slot'[h].pc = "sleep")
         => /\ procs[slot[h].vm_name] = 0
            /\ procs'[slot[h].vm_name] <= 1]_vars


\* C20: the id allocation of a create always returns, also when every id
\* of the id space is a key of the registry: the bot never hangs in it.
C20_IdAllocationTerminates == boot # "hung"


\* The operations on one VM that end, restart or rebuild it.
LifecycleOps == {"stop", "restart", "deletevps", "reinstallvps", "renewssh"}

\* What the VMs other than vm_name keep over a step: their processes,
\* their files and their records.
OthersKept(vm_name) ==
    /\ \A n \in Names \ {vm_name} :
         procs'[n] >= procs[n] /\ files[n] \subseteq files'[n]
    /\ \A i \in DOMAIN vps :
         heap[vps[i]].name # vm_name
         => i \in DOMAIN vps' /\ heap'[vps'[i]] = heap[vps[i]]

\* C21: no step of a stop, restart, delete, reinstall or renew on a VM
\* terminates a process, removes a file or changes the record of a VM of
\* another name, for all the names createvps can compose from a given name
\* and an id.
C21_OnlyItsOwnVm ==
    [][\A h \in Slots :
         (slot[h].op \in LifecycleOps /\ slot[h].pc # "idle" /\ slot'[h] # slot[h])
         => OthersKept(slot[h].vm_name)]_vars


\* C22: a delete that was in flight, another delete of the same id in
\* flight or not, ends in an answer of success, having removed the record,
\* or of NotFound, the record being gone already: never in an error that
\* nothing handles.
C22_DeleteOnce ==
    [][\A h \in Slots :
         Returns(h, "deletevps")
         => /\ reply'.op = "deletevps"
            /\ reply'.result \in {"deleted", "NotFound"}
            /\ reply'.result = "deleted"
                 => slot[h].vps_id \in DOMAIN vps /\ slot[h].vps_id \notin DOMAIN vps']_vars

====
